---- MODULE Spec2Model ----
(***************************************************************************)
(* A model of the customer-segmentation dashboard in src/app.py.           *)
(*                                                                         *)
(* src/app.py holds two copies of the dashboard program one after the     *)
(* other:                                                                  *)
(*   copy "A", lines 1-451: the table is read with read_csv, the single    *)
(*     callback is upd;                                                    *)
(*   copy "B", lines 452-1404: the table comes from load_data (with the    *)
(*     synthesized table as fallback), the callbacks are update_pie_chart  *)
(*     and update_all_charts.                                              *)
(* Both copies define strats, get_strat and the loop that builds profs and *)
(* annotates the table.  The variable `variant` says which copy runs.      *)
(*                                                                         *)
(* Numbers.  A pandas mean is a float; the model keeps a mean as the exact *)
(* pair (sum, n) and compares it with a threshold k by comparing sum with  *)
(* k*n.  A mean over no rows is NaN (n = 0): every comparison with it is   *)
(* false, as in Python.                                                    *)
(*                                                                         *)
(* Strings.  The emoji that starts every strategy name is left out of the  *)
(* model's strings; the label format keeps the name and the cluster id.    *)
(***************************************************************************)
EXTENDS Integers, Sequences, FiniteSets, TLC

VARIABLES
    variant,          \* "A" or "B": which copy of the program is running
    pc,               \* "load", "annotate" (module-level loop), "serve" or "aborted"
    rfm,              \* the customer table: a sequence of rows
    todo,             \* cluster ids the annotation loop has still to visit
    profs,            \* dict cluster id -> strategy record
    calls,            \* number of get_strat calls made by the loop, per cluster id
    initial_figures,  \* copy B: the figures cached at start-up
    out,              \* the callback invocation in progress: its inputs and result
    last,             \* the result of the last stand-alone classification
    files,            \* the state of the CSV files the loader looks for
    origin,           \* where the table came from: "none", "file" or "synthetic"
    score_den,        \* RFM_Score is held in units of 1/score_den (1: whole scores)
    controls,         \* per browser session, the values of the controls cf, rf, pf
    pending,          \* the callback invocations Dash has triggered and not yet run
    shown             \* per browser session, the subsets its charts were built from

\* The loader's and the browsers' side of the state.
loader == <<files, origin, score_den>>
browser == <<controls, pending, shown>>

vars == <<variant, pc, rfm, todo, profs, calls, initial_figures, out, last, loader, browser>>

(***************************************************************************)
(* Bounds of the model.                                                    *)
(***************************************************************************)
\* Largest number of rows of a table of the dashboard specification.
MaxRows == 2
\* Largest number of rows of a table of the classifier specification.
MaxClassRows == 3

\* Cluster ids a table may use (Cluster_KMeans).
ClusterIds == {0, 1}
\* A cluster id no row of any table carries (a cluster with zero rows).
AbsentCluster == Cardinality(ClusterIds)

\* Column values of the classifier specification: the means of up to
\* MaxClassRows of them fall below, on, between and above the thresholds
\* of get_strat (50 and 100 for recency, 5 and 10 for frequency, 1000 and
\* 1500 for monetary); (10 + 10 + 130) / 3 is the recency threshold 50.
RVals == {10, 130}
FVals == {2, 8, 12}
MVals == {1000, 2000}

\* The value pandas shows in a column for a row the column was never set on.
NaN == "NaN"

\* The CSV files the program looks for, in the order copy A tries them.
FileNames == {"final_customer_segments (1).csv", "final_customer_segments.csv"}

(***************************************************************************)
(* strats: the six static strategy records.                                *)
(***************************************************************************)
strats ==
    [champions |->
        [name |-> "Champions", grad |-> "linear-gradient(135deg,#FFD700,#FFA500)",
         color |-> "#FFD700", priority |-> "CRITICAL", strategy |-> "VIP Platinum",
         tactics |-> <<"Exclusive Early Access", "Premium Gifts", "24/7 Manager",
                       "VIP Events", "Celebrations">>,
         kpis |-> <<"Retention>95%", "Upsell>40%", "Referral>30%">>,
         budget |-> "30%", roi |-> "500%"],
     loyal |->
        [name |-> "Loyal", grad |-> "linear-gradient(135deg,#667eea,#764ba2)",
         color |-> "#667eea", priority |-> "HIGH", strategy |-> "Loyalty Boost",
         tactics |-> <<"Tiered Rewards", "App Benefits", "Birthday Offers",
                       "Referral Bonus", "Flash Access">>,
         kpis |-> <<"Retention>85%", "Frequency+20%", "NPS>8">>,
         budget |-> "25%", roi |-> "380%"],
     big |->
        [name |-> "Big Spenders", grad |-> "linear-gradient(135deg,#f093fb,#f5576c)",
         color |-> "#f093fb", priority |-> "CRITICAL", strategy |-> "Value Max",
         tactics |-> <<"Flex Terms", "Luxury Gifts", "Free Express",
                       "Custom Bundles", "Concierge">>,
         kpis |-> <<"AOV+15%", "Retention>90%", "Sat>4.8/5">>,
         budget |-> "20%", roi |-> "420%"],
     dormant |->
        [name |-> "Dormant", grad |-> "linear-gradient(135deg,#ff6b6b,#ee5a6f)",
         color |-> "#ff6b6b", priority |-> "URGENT", strategy |-> "Win-Back",
         tactics |-> <<"25-30% Off", "Multi-Channel", "Retargeting",
                       "Personal Call", "Urgency">>,
         kpis |-> <<"Winback>25%", "Response>15%", "ROI>200%">>,
         budget |-> "15%", roi |-> "250%"],
     potential |->
        [name |-> "Potential", grad |-> "linear-gradient(135deg,#11998e,#38ef7d)",
         color |-> "#11998e", priority |-> "MEDIUM", strategy |-> "Fast Convert",
         tactics |-> <<"Education", "15% 2nd Buy", "Welcome Flow",
                       "Tutorials", "Cross-Sell">>,
         kpis |-> <<"Convert>35%", "2nd<30d", "LTV+25%">>,
         budget |-> "5%", roi |-> "180%"],
     standard |->
        [name |-> "Standard", grad |-> "linear-gradient(135deg,#89f7fe,#66a6ff)",
         color |-> "#89f7fe", priority |-> "MEDIUM", strategy |-> "Steady Engage",
         tactics |-> <<"Newsletters", "Seasonal", "AI Recs", "Surprises", "Community">>,
         kpis |-> <<"Engage>40%", "Stable", "Sat>3.5/5">>,
         budget |-> "5%", roi |-> "150%"]]

(***************************************************************************)
(* pandas helpers used by get_strat.                                       *)
(***************************************************************************)
\* data[data['Cluster_KMeans'] == cid]: the rows of one cluster, in table order.
cluster_rows(cid, data) ==
    SelectSeq(data, LAMBDA row : row.Cluster_KMeans = cid)

RECURSIVE col_sum(_, _)
col_sum(rows, col) ==
    IF rows = << >> THEN 0
    ELSE IF Len(rows) = 1 THEN rows[1][col]
    ELSE LET m == Len(rows) \div 2
         IN  col_sum(SubSeq(rows, 1, m), col) + col_sum(SubSeq(rows, m + 1, Len(rows)), col)

\* Faulty variant of mean: the mean over no rows is 0 instead of NaN.
mean_empty_is_zero(rows, col) ==
    [sum |-> col_sum(rows, col), n |-> IF Len(rows) = 0 THEN 1 ELSE Len(rows)]

\* Series.mean(): the exact mean as (sum, n); n = 0 is NaN.
mean(rows, col) == [sum |-> col_sum(rows, col), n |-> Len(rows)]

\* x < k and x > k for a mean x and an integer k; false when x is NaN.
lt(x, k) == x.n > 0 /\ x.sum < k * x.n
gt(x, k) == x.n > 0 /\ x.sum > k * x.n

(***************************************************************************)
(* get_strat, copy A (src/app.py:44-53).                                   *)
(***************************************************************************)
get_strat_a(cid, data) ==
    LET cd == cluster_rows(cid, data)
        r  == mean(cd, "Recency")
        f  == mean(cd, "Frequency")
        m  == mean(cd, "Monetary")
        s  == IF lt(r, 50) /\ gt(f, 10) /\ gt(m, 1000) THEN "champions"
              ELSE IF lt(r, 50) /\ gt(f, 5) THEN "loyal"
              ELSE IF gt(m, 1500) THEN "big"
              ELSE IF gt(r, 100) THEN "dormant"
              ELSE IF lt(r, 50) /\ lt(f, 5) THEN "potential"
              ELSE "standard"
    IN  [cluster_id |-> cid] @@ strats[s]

(***************************************************************************)
(* Faulty variants of get_strat, used to show that the classifier claims   *)
(* depend on the code of get_strat.                                        *)
(***************************************************************************)
\* Rule 4 (dormant) tested before rule 3 (big spenders).
get_strat_dormant_first(cid, data) ==
    LET cd == cluster_rows(cid, data)
        r  == mean(cd, "Recency")
        f  == mean(cd, "Frequency")
        m  == mean(cd, "Monetary")
        s  == IF lt(r, 50) /\ gt(f, 10) /\ gt(m, 1000) THEN "champions"
              ELSE IF lt(r, 50) /\ gt(f, 5) THEN "loyal"
              ELSE IF gt(r, 100) THEN "dormant"
              ELSE IF gt(m, 1500) THEN "big"
              ELSE IF lt(r, 50) /\ lt(f, 5) THEN "potential"
              ELSE "standard"
    IN  [cluster_id |-> cid] @@ strats[s]

\* Rule 3 (big spenders) tested first.
get_strat_big_first(cid, data) ==
    LET cd == cluster_rows(cid, data)
        r  == mean(cd, "Recency")
        f  == mean(cd, "Frequency")
        m  == mean(cd, "Monetary")
        s  == IF gt(m, 1500) THEN "big"
              ELSE IF lt(r, 50) /\ gt(f, 10) /\ gt(m, 1000) THEN "champions"
              ELSE IF lt(r, 50) /\ gt(f, 5) THEN "loyal"
              ELSE IF gt(r, 100) THEN "dormant"
              ELSE IF lt(r, 50) /\ lt(f, 5) THEN "potential"
              ELSE "standard"
    IN  [cluster_id |-> cid] @@ strats[s]

\* Frequency taken as the cluster's total instead of its mean.
get_strat_sum_frequency(cid, data) ==
    LET cd == cluster_rows(cid, data)
        r  == mean(cd, "Recency")
        f  == [sum |-> col_sum(cd, "Frequency"), n |-> IF cd = << >> THEN 0 ELSE 1]
        m  == mean(cd, "Monetary")
        s  == IF lt(r, 50) /\ gt(f, 10) /\ gt(m, 1000) THEN "champions"
              ELSE IF lt(r, 50) /\ gt(f, 5) THEN "loyal"
              ELSE IF gt(m, 1500) THEN "big"
              ELSE IF gt(r, 100) THEN "dormant"
              ELSE IF lt(r, 50) /\ lt(f, 5) THEN "potential"
              ELSE "standard"
    IN  [cluster_id |-> cid] @@ strats[s]

\* Rule 2 (loyal) tested before rule 1 (champions).
get_strat_loyal_first(cid, data) ==
    LET cd == cluster_rows(cid, data)
        r  == mean(cd, "Recency")
        f  == mean(cd, "Frequency")
        m  == mean(cd, "Monetary")
        s  == IF lt(r, 50) /\ gt(f, 5) THEN "loyal"
              ELSE IF lt(r, 50) /\ gt(f, 10) /\ gt(m, 1000) THEN "champions"
              ELSE IF gt(m, 1500) THEN "big"
              ELSE IF gt(r, 100) THEN "dormant"
              ELSE IF lt(r, 50) /\ lt(f, 5) THEN "potential"
              ELSE "standard"
    IN  [cluster_id |-> cid] @@ strats[s]

\* Rule 4 (dormant) with its comparison reversed (r < 100).
get_strat_dormant_below(cid, data) ==
    LET cd == cluster_rows(cid, data)
        r  == mean(cd, "Recency")
        f  == mean(cd, "Frequency")
        m  == mean(cd, "Monetary")
        s  == IF lt(r, 50) /\ gt(f, 10) /\ gt(m, 1000) THEN "champions"
              ELSE IF lt(r, 50) /\ gt(f, 5) THEN "loyal"
              ELSE IF gt(m, 1500) THEN "big"
              ELSE IF lt(r, 100) THEN "dormant"
              ELSE IF lt(r, 50) /\ lt(f, 5) THEN "potential"
              ELSE "standard"
    IN  [cluster_id |-> cid] @@ strats[s]

(***************************************************************************)
(* get_strat, copy B (src/app.py:546-566).                                 *)
(***************************************************************************)
get_strat(cid, data) ==
    LET cd == cluster_rows(cid, data)
        r  == mean(cd, "Recency")
        f  == mean(cd, "Frequency")
        m  == mean(cd, "Monetary")
        s  == IF lt(r, 50) /\ gt(f, 10) /\ gt(m, 1000) THEN "champions"
              ELSE IF lt(r, 50) /\ gt(f, 5) THEN "loyal"
              ELSE IF gt(m, 1500) THEN "big"
              ELSE IF gt(r, 100) THEN "dormant"
              ELSE IF lt(r, 50) /\ lt(f, 5) THEN "potential"
              ELSE "standard"
    IN  [cluster_id |-> cid] @@ strats[s]

\* The get_strat of the running copy.
get_strat_of(v, cid, data) ==
    IF v = "A" THEN get_strat_a(cid, data) ELSE get_strat(cid, data)

(***************************************************************************)
(* The loop that builds profs and annotates the table                      *)
(* (copy A: src/app.py:55-60, copy B: src/app.py:568-576).                 *)
(***************************************************************************)
\* Faulty variant of unique: only the first value is kept.
unique_first_only(s) == IF s = << >> THEN << >> ELSE <<s[1]>>

\* Series.unique(): the distinct values in order of first appearance.
RECURSIVE unique(_)
unique(s) ==
    IF Len(s) <= 1 THEN s
    ELSE LET m     == Len(s) \div 2
             first == unique(SubSeq(s, 1, m))
             rest  == unique(SubSeq(s, m + 1, Len(s)))
         IN  first \o SelectSeq(rest, LAMBDA x : \A i \in 1..Len(first) : first[i] # x)

column(data, col) == [i \in 1..Len(data) |-> data[i][col]]

\* f"{p['name'][:2]} {p['name'][2:]} (C{c})"
cluster_label(p, c) == p.name \o " (C" \o ToString(c) \o ")"

\* Faulty variant of loc_set: the row mask is forgotten (rfm[col] = value).
loc_set_unmasked(data, c, col, value) ==
    [i \in 1..Len(data) |-> [data[i] EXCEPT ![col] = value]]

\* Faulty variant of loc_set: the table is replaced by the cluster's rows
\* with the column set (rfm = rfm[mask].assign(col=value)).
loc_set_drops_rows(data, c, col, value) ==
    LET kept == SelectSeq(data, LAMBDA row : row.Cluster_KMeans = c)
    IN  [i \in 1..Len(kept) |-> [kept[i] EXCEPT ![col] = value]]

\* Faulty variant of loc_set: only the first row of the cluster is written.
loc_set_first_row(data, c, col, value) ==
    [i \in 1..Len(data) |->
        IF data[i].Cluster_KMeans = c /\ \A j \in 1..(i - 1) : data[j].Cluster_KMeans # c
        THEN [data[i] EXCEPT ![col] = value] ELSE data[i]]

\* rfm.loc[rfm['Cluster_KMeans'] == c, col] = value
loc_set(data, c, col, value) ==
    [i \in 1..Len(data) |->
        IF data[i].Cluster_KMeans = c THEN [data[i] EXCEPT ![col] = value] ELSE data[i]]

\* One iteration of `for c in rfm['Cluster_KMeans'].unique()`.
AnnotateStep ==
    /\ pc = "annotate"
    /\ todo # << >>
    /\ LET c == Head(todo)
           p == get_strat_of(variant, c, rfm)
       IN  /\ profs' = (c :> p) @@ profs
           /\ rfm' = loc_set(loc_set(rfm, c, "Cluster_Label", cluster_label(p, c)),
                             c, "Priority", p.priority)
           /\ calls' = [calls EXCEPT ![c] = @ + 1]
    /\ todo' = Tail(todo)
    /\ UNCHANGED <<variant, pc, initial_figures, out, last, loader, browser>>

(***************************************************************************)
(* Data frames.  A subset of the table (df) is the sequence of the index   *)
(* labels of its rows, in table order; the row itself is rfm[i].  df[mask] *)
(* is SelectSeq(df, mask).                                                 *)
(***************************************************************************)
\* The elements of a set of integers in increasing order.
RECURSIVE sorted_seq(_)
sorted_seq(S) ==
    IF S = {} THEN << >>
    ELSE LET x == CHOOSE y \in S : \A z \in S : y <= z
         IN  <<x>> \o sorted_seq(S \ {x})

range_of(df) == {df[k] : k \in 1..Len(df)}

\* The selector value 'all' of the segment dropdown; cluster ids are >= 0.
all_segments == -1

(***************************************************************************)
(* The filter of copy A (upd, src/app.py:256-258).                         *)
(***************************************************************************)
upd_filter(sc, rr, sp) ==
    LET df0 == SelectSeq([i \in 1..Len(rfm) |-> i],
                      LAMBDA i : rfm[i].RFM_Score >= rr[1] /\ rfm[i].RFM_Score <= rr[2])
        df1 == IF sc # all_segments
               THEN SelectSeq(df0, LAMBDA i : rfm[i].Cluster_KMeans = sc) ELSE df0
    IN  IF sp # "all" THEN SelectSeq(df1, LAMBDA i : rfm[i].Priority = sp) ELSE df1

\* Faulty variants of the filter of copy B.
\* The two halves of the range mask joined with | instead of &.
filter_or_mask(segment, rfm_range, priority) ==
    LET df0 == SelectSeq([i \in 1..Len(rfm) |-> i],
                      LAMBDA i : rfm[i].RFM_Score >= rfm_range[1]
                                 \/ rfm[i].RFM_Score <= rfm_range[2])
        df1 == IF segment # all_segments
               THEN SelectSeq(df0, LAMBDA i : rfm[i].Cluster_KMeans = segment) ELSE df0
    IN  IF priority # "all" THEN SelectSeq(df1, LAMBDA i : rfm[i].Priority = priority) ELSE df1

\* The upper bound of the range taken as exclusive.
filter_strict_upper(segment, rfm_range, priority) ==
    LET df0 == SelectSeq([i \in 1..Len(rfm) |-> i],
                      LAMBDA i : rfm[i].RFM_Score >= rfm_range[1]
                                 /\ rfm[i].RFM_Score < rfm_range[2])
        df1 == IF segment # all_segments
               THEN SelectSeq(df0, LAMBDA i : rfm[i].Cluster_KMeans = segment) ELSE df0
    IN  IF priority # "all" THEN SelectSeq(df1, LAMBDA i : rfm[i].Priority = priority) ELSE df1

(***************************************************************************)
(* The filter of copy B (update_all_charts, src/app.py:1109-1115).         *)
(***************************************************************************)
update_all_charts_filter(segment, rfm_range, priority) ==
    LET df0 == SelectSeq([i \in 1..Len(rfm) |-> i],
                      LAMBDA i : rfm[i].RFM_Score >= rfm_range[1]
                                 /\ rfm[i].RFM_Score <= rfm_range[2])
        df1 == IF segment # all_segments
               THEN SelectSeq(df0, LAMBDA i : rfm[i].Cluster_KMeans = segment) ELSE df0
    IN  IF priority # "all" THEN SelectSeq(df1, LAMBDA i : rfm[i].Priority = priority) ELSE df1

(***************************************************************************)
(* Chart builders.  A figure is a record of the data the chart shows;      *)
(* layout and styling are left out.                                        *)
(***************************************************************************)
labels_of(data, df) == {data[i].Cluster_Label : i \in range_of(df)}

rows_with_label(data, df, l) == SelectSeq(df, LAMBDA i : data[i].Cluster_Label = l)

RECURSIVE sum_over(_, _, _)
sum_over(data, df, col) ==
    IF df = << >> THEN 0
    ELSE IF Len(df) = 1 THEN data[df[1]][col]
    ELSE LET m == Len(df) \div 2
         IN  sum_over(data, SubSeq(df, 1, m), col)
               + sum_over(data, SubSeq(df, m + 1, Len(df)), col)

\* Faulty variant of sort_values: descending order (ascending=False).
RECURSIVE sort_values_descending(_, _)
sort_values_descending(S, key) ==
    IF S = {} THEN << >>
    ELSE LET l == CHOOSE x \in S : \A y \in S : key[x] >= key[y]
         IN  <<l>> \o sort_values_descending(S \ {l}, key)

\* The labels of a set in ascending order of key[l] (sort_values).
RECURSIVE sort_values(_, _)
sort_values(S, key) ==
    IF S = {} THEN << >>
    ELSE LET l == CHOOSE x \in S : \A y \in S : key[x] <= key[y]
         IN  <<l>> \o sort_values(S \ {l}, key)

\* Chart 1: df['Cluster_Label'].value_counts() as a pie, len(df) in the middle.
pie_figure(data, df) ==
    [type   |-> "pie",
     values |-> [l \in labels_of(data, df) |-> Len(rows_with_label(data, df, l))],
     total  |-> Len(df)]

\* Chart 2: df.groupby('Cluster_Label')['Monetary'].sum().sort_values() as bars.
bar_figure(data, df) ==
    LET rv == [l \in labels_of(data, df) |->
                  sum_over(data, rows_with_label(data, df, l), "Monetary")]
        y  == sort_values(DOMAIN rv, rv)
    IN  [type |-> "bar", y |-> y, x |-> [k \in 1..Len(y) |-> rv[y[k]]]]

\* Chart 3 of copy A: one marker per row of df.
scatter_figure_all(data, df) ==
    [type   |-> "scatter3d",
     n      |-> Len(df),
     points |-> [k \in 1..Len(df) |->
                   [x |-> data[df[k]].Recency, y |-> data[df[k]].Frequency,
                    z |-> data[df[k]].Monetary, color |-> data[df[k]].Cluster_KMeans]]]

\* The cap of the scatter sample of copy B.
SCATTER_SAMPLE == 500

\* min(500, len(df))
sample_size(df) == IF SCATTER_SAMPLE < Len(df) THEN SCATTER_SAMPLE ELSE Len(df)

\* Chart 3 of create_initial_figures: each coordinate is a sample of
\* min(500, len(data)) values of its column, drawn once at start-up; the
\* figure records the size of the sample.
scatter_figure_sampled(data, df) ==
    [type |-> "scatter3d", n |-> sample_size(df)]

\* Series.sample(n) draws n values of the column without replacement with
\* numpy's process-wide random generator, which nothing seeds before a
\* callback runs (only create_enhanced_data seeds it, once, at load) and
\* which every sample() of every invocation advances.  The outcomes are
\* the sequences of n values in which no value occurs more often than in
\* the column.
count_in(s, v) == Cardinality({k \in DOMAIN s : s[k] = v})

sample_outcomes(values, n) ==
    LET V == {values[k] : k \in DOMAIN values}
    IN  IF Cardinality(V) <= 1 THEN [1..n -> V]
        ELSE {s \in [1..n -> V] : \A v \in V : count_in(s, v) <= count_in(values, v)}

\* The four samples chart 3 of update_all_charts draws, each on its own:
\* x from Recency, y from Frequency, z from Monetary, the marker colour
\* from Cluster_KMeans.
NoDraw == [x |-> << >>, y |-> << >>, z |-> << >>, color |-> << >>]

scatter_draws(data, df) ==
    [x     : sample_outcomes([k \in 1..Len(df) |-> data[df[k]].Recency], sample_size(df)),
     y     : sample_outcomes([k \in 1..Len(df) |-> data[df[k]].Frequency], sample_size(df)),
     z     : sample_outcomes([k \in 1..Len(df) |-> data[df[k]].Monetary], sample_size(df)),
     color : sample_outcomes([k \in 1..Len(df) |-> data[df[k]].Cluster_KMeans], sample_size(df))]

\* Chart 3 of update_all_charts: marker k has the k-th value of each sample.
scatter_figure_drawn(draw) ==
    [type   |-> "scatter3d",
     n      |-> Len(draw.x),
     points |-> [k \in 1..Len(draw.x) |->
                   [x |-> draw.x[k], y |-> draw.y[k], z |-> draw.z[k],
                    color |-> draw.color[k]]]]

\* Charts 4-6: the histogram of one column of df.
histogram_figure(data, df, col) ==
    [type |-> "histogram", col |-> col, x |-> [k \in 1..Len(df) |-> data[df[k]][col]]]

\* Faulty variant of table_figure: the Count column holds len(df).
table_figure_count_all(data, df) ==
    [type |-> "table",
     rows |-> [l \in labels_of(data, df) |->
                 LET g == rows_with_label(data, df, l)
                 IN  [Count         |-> Len(df),
                      Recency       |-> [sum |-> sum_over(data, g, "Recency"), n |-> Len(g)],
                      Frequency     |-> [sum |-> sum_over(data, g, "Frequency"), n |-> Len(g)],
                      Monetary      |-> [sum |-> sum_over(data, g, "Monetary"), n |-> Len(g)],
                      AvgOrderValue |-> [sum |-> sum_over(data, g, "AvgOrderValue"), n |-> Len(g)],
                      RFM_Score     |-> [sum |-> sum_over(data, g, "RFM_Score"), n |-> Len(g)]]]]

\* Chart 7: per label the means of five columns (as sum and n) and the count.
table_figure(data, df) ==
    [type |-> "table",
     rows |-> [l \in labels_of(data, df) |->
                 LET g == rows_with_label(data, df, l)
                 IN  [Count         |-> Len(g),
                      Recency       |-> [sum |-> sum_over(data, g, "Recency"), n |-> Len(g)],
                      Frequency     |-> [sum |-> sum_over(data, g, "Frequency"), n |-> Len(g)],
                      Monetary      |-> [sum |-> sum_over(data, g, "Monetary"), n |-> Len(g)],
                      AvgOrderValue |-> [sum |-> sum_over(data, g, "AvgOrderValue"), n |-> Len(g)],
                      RFM_Score     |-> [sum |-> sum_over(data, g, "RFM_Score"), n |-> Len(g)]]]]

\* The chart of slot k (1..7) of copy A, built from df.
upd_chart(k, data, df) ==
    CASE k = 1 -> pie_figure(data, df)
      [] k = 2 -> bar_figure(data, df)
      [] k = 3 -> scatter_figure_all(data, df)
      [] k = 4 -> histogram_figure(data, df, "Recency")
      [] k = 5 -> histogram_figure(data, df, "Frequency")
      [] k = 6 -> histogram_figure(data, df, "Monetary")
      [] k = 7 -> table_figure(data, df)

\* The chart of slot k (1..7) of copy B, built from df and the samples drawn.
update_all_charts_chart(k, data, df, draw) ==
    CASE k = 1 -> pie_figure(data, df)
      [] k = 2 -> bar_figure(data, df)
      [] k = 3 -> scatter_figure_drawn(draw)
      [] k = 4 -> histogram_figure(data, df, "Recency")
      [] k = 5 -> histogram_figure(data, df, "Frequency")
      [] k = 6 -> histogram_figure(data, df, "Monetary")
      [] k = 7 -> table_figure(data, df)

\* create_initial_figures(data): the seven charts of the whole table.
create_initial_figures(data) ==
    LET df == [i \in 1..Len(data) |-> i]
    IN  [k \in 1..7 |->
            CASE k = 1 -> pie_figure(data, df)
              [] k = 2 -> bar_figure(data, df)
              [] k = 3 -> scatter_figure_sampled(data, df)
              [] k = 4 -> histogram_figure(data, df, "Recency")
              [] k = 5 -> histogram_figure(data, df, "Frequency")
              [] k = 6 -> histogram_figure(data, df, "Monetary")
              [] k = 7 -> table_figure(data, df)]

(***************************************************************************)
(* Panels.                                                                 *)
(***************************************************************************)
\* The keys of champion_details.
champion_details == {1, 3, 4, 6}

\* The champion breakdown: a card per champion cluster of df that is a key
\* of champion_details, in ascending order of cluster id; None without one.
champion_breakdown(df, prof) ==
    LET champion_clusters ==
            {c \in {rfm[i].Cluster_KMeans : i \in range_of(df)} :
                c \in DOMAIN prof /\ prof[c].name = "Champions"}
        cards == sorted_seq(champion_clusters \cap champion_details)
    IN  IF cards = << >> THEN [type |-> "None"]
        ELSE [type |-> "champ-break", cards |-> cards]

\* The strategy cards of copy A: one per entry of profs the segment
\* selector admits, in the order of profs.
upd_strategy_cards(sc, df, prof, order) ==
    [type  |-> "strat-g",
     cards |-> LET keep == SelectSeq(order, LAMBDA cid : sc = all_segments \/ sc = cid)
               IN  [k \in 1..Len(keep) |->
                      [cid |-> keep[k], name |-> prof[keep[k]].name,
                       priority |-> prof[keep[k]].priority]]]

\* The strategy cards of copy B: as above, only for clusters with at least
\* one row in df, and with the number of those rows.
update_all_charts_strategy_cards(segment, df, prof, order) ==
    [type  |-> "strat-g",
     cards |-> LET count(cid) == Len(SelectSeq(df, LAMBDA i : rfm[i].Cluster_KMeans = cid))
                   keep == SelectSeq(order,
                               LAMBDA cid : (segment = all_segments \/ segment = cid)
                                            /\ count(cid) > 0)
               IN  [k \in 1..Len(keep) |->
                      [cid |-> keep[k], name |-> prof[keep[k]].name,
                       priority |-> prof[keep[k]].priority, customers |-> count(keep[k])]]]

\* The insights panel (its text depends on df; the model records its size).
insights_panel(df) == [type |-> "ins", customers |-> Len(df)]

empty_fig == [type |-> "empty", title |-> "No data for selected filters"]
empty_message == [type |-> "message", text |-> "No data found for selected filters"]
error_message == [type |-> "message", text |-> "Error updating dashboard"]

(***************************************************************************)
(* Callbacks.  A callback returns [raised, at, df, value]: `raised` is the *)
(* exception that leaves the callback ("none" when it returns), `at` the   *)
(* step that raised first (0 when none did), `df` the filtered subset it   *)
(* computed and `value` the outputs it returns.                            *)
(*                                                                         *)
(* `fault` is an input of the model: 0, or the number 1..7 of the chart    *)
(* whose plotly builder raises when it is called (a figure property the    *)
(* installed plotly rejects, for instance).  `draw` is the outcome of the  *)
(* samples the invocation draws from the random generator.                 *)
(***************************************************************************)
NumCharts == 7
INSIGHTS_STEP == 10

\* Faulty variant of upd, see update_all_charts_isolated below.
upd_isolated(sc, rr, sp, fault) ==
    LET df == upd_filter(sc, rr, sp)
    IN  IF Len(df) = 0
        THEN [raised |-> "ValueError", at |-> INSIGHTS_STEP, df |-> df, value |-> << >>]
        ELSE [raised |-> "none", at |-> fault, df |-> df,
              value  |-> [k \in 1..NumCharts |->
                            IF k = fault THEN empty_fig ELSE upd_chart(k, rfm, df)]
                         \o <<champion_breakdown(df, profs),
                              upd_strategy_cards(sc, df, profs, unique(column(rfm, "Cluster_KMeans"))),
                              insights_panel(df)>>]

\* upd (copy A, src/app.py:255-427).  There is no try block: an exception
\* of a builder leaves the callback.  On an empty df every chart is built
\* (pandas and plotly accept empty input) and the insights panel raises
\* ValueError: idxmax of an empty Series (line 408).
upd(sc, rr, sp, fault) ==
    LET df == upd_filter(sc, rr, sp)
    IN  IF fault # 0
        THEN [raised |-> "Exception", at |-> fault, df |-> df, value |-> << >>]
        ELSE IF Len(df) = 0
        THEN [raised |-> "ValueError", at |-> INSIGHTS_STEP, df |-> df, value |-> << >>]
        ELSE [raised |-> "none", at |-> 0, df |-> df,
              value  |-> [k \in 1..NumCharts |-> upd_chart(k, rfm, df)]
                         \o <<champion_breakdown(df, profs),
                              upd_strategy_cards(sc, df, profs, unique(column(rfm, "Cluster_KMeans"))),
                              insights_panel(df)>>]

\* Whether the name `traceback`, used by the handler of update_all_charts
\* (line 1358), is bound: src/app.py never imports it.
traceback_imported == FALSE

\* Faulty variant of update_all_charts: every builder has its own handler
\* that puts the cached initial figure in the builder's slot.
update_all_charts_isolated(segment, rfm_range, priority, fault, draw) ==
    LET df == update_all_charts_filter(segment, rfm_range, priority)
    IN  IF Len(df) = 0
        THEN [raised |-> "none", at |-> 0, df |-> df,
              value  |-> [k \in 1..NumCharts |-> empty_fig]
                         \o <<empty_message, empty_message, empty_message>>]
        ELSE [raised |-> "none", at |-> fault, df |-> df,
              value  |-> [k \in 1..NumCharts |->
                            IF k = fault THEN initial_figures[k]
                            ELSE update_all_charts_chart(k, rfm, df, draw)]
                         \o <<champion_breakdown(df, profs),
                              update_all_charts_strategy_cards(segment, df, profs,
                                  unique(column(rfm, "Cluster_KMeans"))),
                              insights_panel(df)>>]

\* update_all_charts (copy B, src/app.py:1100-1366).  One try block holds
\* the whole body.  Its handler prints, then calls traceback.print_exc():
\* with traceback unbound that raises NameError, which leaves the callback
\* before the fallback of line 1366 is returned.
update_all_charts(segment, rfm_range, priority, fault, draw) ==
    LET df == update_all_charts_filter(segment, rfm_range, priority)
    IN  IF Len(df) = 0
        THEN [raised |-> "none", at |-> 0, df |-> df,
              value  |-> [k \in 1..NumCharts |-> empty_fig]
                         \o <<empty_message, empty_message, empty_message>>]
        ELSE IF fault = 0
        THEN [raised |-> "none", at |-> 0, df |-> df,
              value  |-> [k \in 1..NumCharts |-> update_all_charts_chart(k, rfm, df, draw)]
                         \o <<champion_breakdown(df, profs),
                              update_all_charts_strategy_cards(segment, df, profs,
                                  unique(column(rfm, "Cluster_KMeans"))),
                              insights_panel(df)>>]
        ELSE IF traceback_imported
        THEN [raised |-> "none", at |-> fault, df |-> df,
              value  |-> initial_figures \o <<error_message, error_message, error_message>>]
        ELSE [raised |-> "NameError", at |-> fault, df |-> df, value |-> << >>]

\* update_pie_chart (copy B, src/app.py:1046-1081): the pie of the rows of
\* one segment, or of the whole table; on any exception the cached pie.
update_pie_chart(segment, fault) ==
    LET data == IF segment = all_segments THEN [i \in 1..Len(rfm) |-> i]
                ELSE SelectSeq([i \in 1..Len(rfm) |-> i],
                            LAMBDA i : rfm[i].Cluster_KMeans = segment)
    IN  IF fault = 1
        THEN [raised |-> "none", at |-> 1, df |-> data, value |-> <<initial_figures[1]>>]
        ELSE [raised |-> "none", at |-> 0, df |-> data, value |-> <<pie_figure(rfm, data)>>]

(***************************************************************************)
(* Actions.                                                                *)
(***************************************************************************)
\* The loop is over: the rest of the module-level code runs (copy B caches
\* the initial figures) and the server starts.
AnnotateDone ==
    /\ pc = "annotate"
    /\ todo = << >>
    /\ pc' = "serve"
    /\ initial_figures' = IF variant = "B" THEN create_initial_figures(rfm) ELSE << >>
    /\ UNCHANGED <<variant, rfm, todo, profs, calls, out, last, loader, browser>>

\* The values a request may carry for the three inputs.
SegmentValues == {all_segments} \cup ClusterIds
RangeValues == {<<1, 3>>, <<4, 4>>, <<4, 6>>, <<6, 6>>}
PriorityValues == {"all", "CRITICAL", "URGENT", "HIGH", "MEDIUM"}
Faults == 0..NumCharts

\* Copy A: the browser posts the three control values to upd.
Upd(sc, rr, sp, fault) ==
    /\ pc = "serve" /\ variant = "A" /\ out.cb = "none"
    /\ out' = [cb |-> "upd", segment |-> sc, range |-> rr, priority |-> sp, fault |-> fault,
                draw |-> NoDraw]
                 @@ upd(sc, rr, sp, fault)
    /\ UNCHANGED <<variant, pc, rfm, todo, profs, calls, initial_figures, last, loader, browser>>

\* The outcomes of the samples an invocation of update_all_charts draws
\* before it returns chart 3: none when the subset is empty or a builder
\* raises (no scatter figure is returned then).
update_all_charts_draws(segment, rfm_range, priority, fault) ==
    LET df == update_all_charts_filter(segment, rfm_range, priority)
    IN  IF fault # 0 \/ Len(df) = 0 THEN {NoDraw} ELSE scatter_draws(rfm, df)

\* Copy B: the browser posts the three control values to update_all_charts.
UpdateAllCharts(segment, rfm_range, priority, fault, draw) ==
    /\ pc = "serve" /\ variant = "B" /\ out.cb = "none"
    /\ out' = [cb |-> "update_all_charts", segment |-> segment, range |-> rfm_range,
                priority |-> priority, fault |-> fault, draw |-> draw]
                 @@ update_all_charts(segment, rfm_range, priority, fault, draw)
    /\ UNCHANGED <<variant, pc, rfm, todo, profs, calls, initial_figures, last, loader, browser>>

\* Copy B: the browser posts the segment selector's value to update_pie_chart.
UpdatePieChart(segment, fault) ==
    /\ pc = "serve" /\ variant = "B" /\ out.cb = "none"
    /\ out' = [cb |-> "update_pie_chart", segment |-> segment, range |-> <<0, 0>>,
                priority |-> "all", fault |-> fault, draw |-> NoDraw]
                 @@ update_pie_chart(segment, fault)
    /\ UNCHANGED <<variant, pc, rfm, todo, profs, calls, initial_figures, last, loader, browser>>

\* health_check of copy A (src/app.py:430-432) and of copy B
\* (src/app.py:1369-1381): row count, and in copy B the number of clusters
\* and the revenue (the sum of Monetary) as well.
health_check_a == [status |-> "healthy", customers |-> Len(rfm)]
health_check ==
    [status    |-> "healthy",
     customers |-> Len(rfm),
     segments  |-> Cardinality({rfm[i].Cluster_KMeans : i \in 1..Len(rfm)}),
     revenue   |-> col_sum(rfm, "Monetary")]

\* GET /health.
HealthCheck ==
    /\ pc = "serve" /\ out.cb = "none"
    /\ out' = [cb |-> "health_check", segment |-> all_segments, range |-> <<0, 0>>,
                priority |-> "all", fault |-> 0, draw |-> NoDraw, raised |-> "none", at |-> 0,
                df |-> << >>,
                value |-> <<IF variant = "A" THEN health_check_a ELSE health_check>>]
    /\ UNCHANGED <<variant, pc, rfm, todo, profs, calls, initial_figures, last, loader, browser>>

\* The response (the returned outputs, or the error) has been sent: the
\* server, which handles one request at a time, waits for the next one.
Respond ==
    /\ pc = "serve" /\ out.cb # "none"
    /\ out' = [cb |-> "none", segment |-> all_segments, range |-> <<0, 0>>, priority |-> "all",
                fault |-> 0, draw |-> NoDraw, raised |-> "none", at |-> 0, df |-> << >>,
                value |-> << >>]
    /\ UNCHANGED <<variant, pc, rfm, todo, profs, calls, initial_figures, last, loader, browser>>

\* The response of a request of a browser session has been sent: Dash
\* gives each returned value to the output it was declared for, so the
\* graphs of the session show figures built from the subset the callback
\* computed; a callback that raised changes nothing in the page.
Deliver ==
    /\ pc = "serve" /\ out.cb # "none"
    /\ shown' = [shown EXCEPT ![out.session] =
                    IF out.raised # "none" THEN @
                    ELSE IF out.cb = "update_pie_chart" THEN [@ EXCEPT !.g1 = out.df]
                    ELSE [g1 |-> out.df, charts |-> out.df]]
    /\ out' = [cb |-> "none", segment |-> all_segments, range |-> <<0, 0>>, priority |-> "all",
                fault |-> 0, draw |-> NoDraw, raised |-> "none", at |-> 0, df |-> << >>,
                value |-> << >>]
    /\ UNCHANGED <<variant, pc, rfm, todo, profs, calls, initial_figures, last, loader,
                   controls, pending>>

(***************************************************************************)
(* Stand-alone classification: get_strat applied to any cluster id of the  *)
(* loaded table, also one that has no rows.                                *)
(***************************************************************************)
Classify(cid) ==
    /\ pc = "serve"
    /\ last' = [done |-> TRUE, cid |-> cid,
                a |-> get_strat_a(cid, rfm), b |-> get_strat(cid, rfm)]
    /\ UNCHANGED <<variant, pc, rfm, todo, profs, calls, initial_figures, out, loader, browser>>

(***************************************************************************)
(* The browser side.  Dash runs a callback when the property of one of its *)
(* Inputs changes in a browser session; the request carries the values all *)
(* its Inputs have in that session at that moment.  When a page is opened  *)
(* every callback without prevent_initial_call is run once.                *)
(***************************************************************************)
\* The browser sessions of the model.
Sessions == {"s1", "s2"}

\* Largest number of control changes in one run of the model.
MaxChanges == 1

\* The callbacks of a copy, the controls each has as Input and the
\* outputs each writes (the decorators at src/app.py:251-254, 1042-1045
\* and 1084-1099).
callbacks_of(v) == IF v = "A" THEN {"upd"} ELSE {"update_pie_chart", "update_all_charts"}

\* Faulty variant of inputs_of: the priority dropdown is declared as State
\* of the update callbacks, not as Input.
inputs_of_pf_as_state(cb) ==
    IF cb = "update_pie_chart" THEN {"cf"} ELSE {"cf", "rf"}

inputs_of(cb) ==
    IF cb = "update_pie_chart" THEN {"cf"} ELSE {"cf", "rf", "pf"}

outputs_of(cb) ==
    IF cb = "update_pie_chart" THEN <<"g1">>
    ELSE <<"g1", "g2", "g3", "g4", "g5", "g6", "g7", "champ-detail", "st", "ins">>

prevent_initial_call(cb) == cb = "update_all_charts"

\* A session that has not opened the page.
ClosedPage ==
    [open |-> FALSE, cf |-> all_segments, rf |-> <<0, 0>>, pf |-> "all", changes |-> 0]

RECURSIVE total_changes(_)
total_changes(S) ==
    IF S = {} THEN 0
    ELSE LET s == CHOOSE x \in S : TRUE
         IN  controls[s].changes + total_changes(S \ {s})

\* rfm['RFM_Score'].min() and rfm['RFM_Score'].max()
score_min == CHOOSE x \in {rfm[i].RFM_Score : i \in 1..Len(rfm)} :
                \A i \in 1..Len(rfm) : x <= rfm[i].RFM_Score
score_max == CHOOSE x \in {rfm[i].RFM_Score : i \in 1..Len(rfm)} :
                \A i \in 1..Len(rfm) : x >= rfm[i].RFM_Score

\* int(x) of a score: the whole number next to x on the side of zero, in
\* the units the scores are held in.
int_score(x) ==
    IF x >= 0 THEN (x \div score_den) * score_den
    ELSE -(((-x) \div score_den) * score_den)

\* What a session shows before any figure was given to its graphs.
NothingShown == [g1 |-> << >>, charts |-> << >>]

\* The request Dash posts for callback cb of session s with the session's
\* control values c.
request(s, cb, c) == [session |-> s, cb |-> cb, cf |-> c.cf, rf |-> c.rf, pf |-> c.pf]

\* A session opens the page: the controls take their initial values
\* (src/app.py:903, 915, 933) and the initial calls are made.
OpenPage(s) ==
    /\ pc = "serve" /\ ~controls[s].open
    /\ LET c == [open |-> TRUE, cf |-> all_segments,
                 rf |-> <<int_score(score_min), int_score(score_max)>>,
                 pf |-> "all", changes |-> 0]
       IN  /\ controls' = [controls EXCEPT ![s] = c]
           /\ pending' = pending \cup
                  {request(s, cb, c) : cb \in {x \in callbacks_of(variant) :
                                                  ~prevent_initial_call(x)}}
    /\ shown' = [shown EXCEPT ![s] =
                    IF variant = "B"
                    THEN [g1 |-> [i \in 1..Len(rfm) |-> i], charts |-> [i \in 1..Len(rfm) |-> i]]
                    ELSE NothingShown]
    /\ UNCHANGED <<variant, pc, rfm, todo, profs, calls, initial_figures, out, last, loader>>

\* The values a user can give control ctl: a segment of the dropdown
\* ('all' or a key of profs), a range with both ends on the slider's
\* ends, a priority of the dropdown.
control_values(ctl) ==
    CASE ctl = "cf" -> {all_segments} \cup DOMAIN profs
      [] ctl = "rf" -> {<<int_score(score_min), int_score(score_min)>>,
                        <<int_score(score_min), int_score(score_max)>>,
                        <<int_score(score_max), int_score(score_max)>>}
      [] ctl = "pf" -> {"all", "CRITICAL", "URGENT", "HIGH", "MEDIUM"}

\* The user of session s gives control ctl the new value v: Dash posts a
\* request for every callback that has the control as Input.
ControlChange(s, ctl, v) ==
    /\ pc = "serve" /\ controls[s].open
    /\ total_changes(Sessions) < MaxChanges
    /\ v \in control_values(ctl) /\ v # controls[s][ctl]
    /\ LET c == [controls[s] EXCEPT ![ctl] = v, !.changes = @ + 1]
       IN  /\ controls' = [controls EXCEPT ![s] = c]
           /\ pending' = pending \cup
                  {request(s, cb, c) : cb \in {x \in callbacks_of(variant) :
                                                  ctl \in inputs_of(x)}}
    /\ UNCHANGED <<variant, pc, rfm, todo, profs, calls, initial_figures, out, last, loader,
                   shown>>

\* The server runs a posted request.
ServeUpd(req) ==
    /\ pc = "serve" /\ out.cb = "none"
    /\ req \in pending /\ req.cb = "upd"
    /\ pending' = pending \ {req}
    /\ out' = [cb |-> "upd", session |-> req.session, segment |-> req.cf, range |-> req.rf,
                priority |-> req.pf, fault |-> 0, draw |-> NoDraw]
                 @@ upd(req.cf, req.rf, req.pf, 0)
    /\ UNCHANGED <<variant, pc, rfm, todo, profs, calls, initial_figures, last, loader, controls,
                   shown>>

ServeUpdateAllCharts(req, draw) ==
    /\ pc = "serve" /\ out.cb = "none"
    /\ req \in pending /\ req.cb = "update_all_charts"
    /\ pending' = pending \ {req}
    /\ out' = [cb |-> "update_all_charts", session |-> req.session, segment |-> req.cf,
                range |-> req.rf, priority |-> req.pf, fault |-> 0, draw |-> draw]
                 @@ update_all_charts(req.cf, req.rf, req.pf, 0, draw)
    /\ UNCHANGED <<variant, pc, rfm, todo, profs, calls, initial_figures, last, loader, controls,
                   shown>>

ServeUpdatePieChart(req) ==
    /\ pc = "serve" /\ out.cb = "none"
    /\ req \in pending /\ req.cb = "update_pie_chart"
    /\ pending' = pending \ {req}
    /\ out' = [cb |-> "update_pie_chart", session |-> req.session, segment |-> req.cf,
                range |-> <<0, 0>>, priority |-> "all", fault |-> 0, draw |-> NoDraw]
                 @@ update_pie_chart(req.cf, 0)
    /\ UNCHANGED <<variant, pc, rfm, todo, profs, calls, initial_figures, last, loader, controls,
                   shown>>

(***************************************************************************)
(* Tables.                                                                 *)
(***************************************************************************)
\* A row of the classifier specification, before annotation: row number i
\* of the product RVals x FVals x MVals x ClusterIds.
NumClassifyRows ==
    Cardinality(RVals) * Cardinality(FVals) * Cardinality(MVals) * Cardinality(ClusterIds)

RValSeq == sorted_seq(RVals)
FValSeq == sorted_seq(FVals)
MValSeq == sorted_seq(MVals)
ClusterIdSeq == sorted_seq(ClusterIds)

ClassifyRow(i) ==
    LET nc == Len(ClusterIdSeq)
        nm == Len(MValSeq)
        nf == Len(FValSeq)
    IN  [Recency        |-> RValSeq[(i \div (nc * nm * nf)) + 1],
         Frequency      |-> FValSeq[((i \div (nc * nm)) % nf) + 1],
         Monetary       |-> MValSeq[((i \div nc) % nm) + 1],
         AvgOrderValue  |-> 100,
         RFM_Score      |-> 5,
         Cluster_KMeans |-> ClusterIdSeq[(i % nc) + 1],
         Cluster_Label  |-> NaN,
         Priority       |-> NaN]

non_decreasing(t) == \A i \in 1..(Len(t) - 1) : t[i] <= t[i + 1]

NoOut == [cb |-> "none", segment |-> all_segments, range |-> <<0, 0>>, priority |-> "all",
          fault |-> 0, draw |-> NoDraw, raised |-> "none", at |-> 0, df |-> << >>,
          value |-> << >>]
NoClassification ==
    [done |-> FALSE, cid |-> AbsentCluster,
     a |-> [cluster_id |-> AbsentCluster] @@ strats.standard,
     b |-> [cluster_id |-> AbsentCluster] @@ strats.standard]

InitScored(table, den) ==
    /\ variant \in {"A", "B"}
    /\ rfm = table
    /\ pc = "annotate"
    /\ todo = unique(column(rfm, "Cluster_KMeans"))
    /\ profs = << >>
    /\ calls = [c \in ClusterIds \cup {AbsentCluster} |-> 0]
    /\ initial_figures = << >>
    /\ out = NoOut
    /\ last = NoClassification
    /\ files = [f \in FileNames |-> "ok"]
    /\ origin = "file"
    /\ score_den = den
    /\ controls = [s \in Sessions |-> ClosedPage]
    /\ pending = {}
    /\ shown = [s \in Sessions |-> NothingShown]

\* A table of whole scores.
InitWith(table) == InitScored(table, 1)

(***************************************************************************)
(* The classifier specification: tables whose means straddle every         *)
(* threshold, the annotation loop, and get_strat on every cluster id.      *)
(***************************************************************************)
\* The classifier reads a table only through the means of a cluster's rows,
\* which do not depend on the order of the rows: one table is taken per
\* multiset of rows, the one whose row numbers are in non-decreasing order.
InitClassify ==
    \E k \in 1..MaxClassRows :
        \E t \in [1..k -> 0..(NumClassifyRows - 1)] :
            /\ non_decreasing(t)
            /\ InitWith([i \in 1..k |-> ClassifyRow(t[i])])

NextClassify ==
    \/ AnnotateStep
    \/ AnnotateDone
    \/ \E cid \in ClusterIds \cup {AbsentCluster} : Classify(cid)

SpecClassify == InitClassify /\ [][NextClassify]_vars

(***************************************************************************)
(* The dashboard specification: small tables whose rows differ in score,   *)
(* cluster and RFM profile, the annotation loop, and the callbacks of the  *)
(* running copy on every combination of input values.                      *)
(***************************************************************************)
\* RFM profiles of a row: the two examples of the specification (a
\* champion and a dormant customer).
ProfileSeq ==
    <<[Recency |-> 10,  Frequency |-> 20, Monetary |-> 5000, AvgOrderValue |-> 250],
      [Recency |-> 150, Frequency |-> 2,  Monetary |-> 300,  AvgOrderValue |-> 150]>>

\* RFM scores of a row.
ScoreSeq == <<4, 6>>

NumDashRows == Len(ProfileSeq) * Len(ScoreSeq) * Len(ClusterIdSeq)

DashRow(i) ==
    LET nc == Len(ClusterIdSeq)
        ns == Len(ScoreSeq)
        pr == ProfileSeq[(i \div (nc * ns)) + 1]
    IN  [Recency        |-> pr.Recency,
         Frequency      |-> pr.Frequency,
         Monetary       |-> pr.Monetary,
         AvgOrderValue  |-> pr.AvgOrderValue,
         RFM_Score      |-> ScoreSeq[((i \div nc) % ns) + 1],
         Cluster_KMeans |-> ClusterIdSeq[(i % nc) + 1],
         Cluster_Label  |-> NaN,
         Priority       |-> NaN]

Init ==
    \E k \in 1..MaxRows :
        \E t \in [1..k -> 0..(NumDashRows - 1)] :
            InitWith([i \in 1..k |-> DashRow(t[i])])

\* The server is up and handles no request.
Idle == pc = "serve" /\ out.cb = "none"

Next ==
    \/ AnnotateStep
    \/ AnnotateDone
    \/ /\ Idle /\ variant = "A"
       /\ \E sc \in SegmentValues, rr \in RangeValues, sp \in PriorityValues, fault \in Faults :
             Upd(sc, rr, sp, fault)
    \/ /\ Idle /\ variant = "B"
       /\ \E segment \in SegmentValues, rfm_range \in RangeValues,
             priority \in PriorityValues, fault \in Faults :
             \E draw \in update_all_charts_draws(segment, rfm_range, priority, fault) :
                UpdateAllCharts(segment, rfm_range, priority, fault, draw)
    \/ /\ Idle /\ variant = "B"
       /\ \E segment \in SegmentValues, fault \in {0, 1} : UpdatePieChart(segment, fault)
    \/ HealthCheck
    \/ Respond

Spec == Init /\ [][Next]_vars

(***************************************************************************)
(* The sessions specification: two browser sessions open the page and      *)
(* change controls, and the server runs the requests Dash posts, in any    *)
(* order.  The order of the rows plays no part here: one table is taken    *)
(* per multiset of rows, the rows being of two kinds that differ in        *)
(* profile, score and cluster.                                             *)
(***************************************************************************)
SessionRowKinds == {0, 7}

InitSessions ==
    \E k \in 1..MaxRows :
        \E t \in [1..k -> SessionRowKinds] :
            /\ non_decreasing(t)
            /\ InitWith([i \in 1..k |-> DashRow(t[i])])

NextSessions ==
    \/ AnnotateStep
    \/ AnnotateDone
    \/ \E s \in Sessions : OpenPage(s)
    \/ \E s \in Sessions, ctl \in {"cf", "rf", "pf"} :
          \E v \in control_values(ctl) : ControlChange(s, ctl, v)
    \/ \E req \in pending : ServeUpd(req)
    \/ \E req \in pending :
          \E draw \in update_all_charts_draws(req.cf, req.rf, req.pf, 0) :
             ServeUpdateAllCharts(req, draw)
    \/ \E req \in pending : ServeUpdatePieChart(req)
    \/ Respond

SpecSessions == InitSessions /\ [][NextSessions]_vars

(***************************************************************************)
(* The slider specification: the sessions on tables read from a file whose *)
(* RFM_Score column holds whole scores (4 and 6) or scores with halves     *)
(* (4.0, 4.5 and 6.5, held as 8, 9 and 13 halves).                         *)
(***************************************************************************)
ScoreDens == {1, 2}

SliderScoreSeq(den) == IF den = 1 THEN <<4, 6>> ELSE <<8, 9, 13>>

\* Row number i of a file with scores in units of 1/den.
SliderRow(i, den) ==
    LET ns   == Len(SliderScoreSeq(den))
        kind == IF i \div ns = 0 THEN 0 ELSE 7
    IN  [DashRow(kind) EXCEPT !.RFM_Score = SliderScoreSeq(den)[(i % ns) + 1]]

InitSlider ==
    \E den \in ScoreDens, k \in 1..MaxRows :
        \E t \in [1..k -> 0..(2 * Len(SliderScoreSeq(den)) - 1)] :
            /\ non_decreasing(t)
            /\ InitScored([i \in 1..k |-> SliderRow(t[i], den)], den)

SpecSlider == InitSlider /\ [][NextSessions]_vars

(***************************************************************************)
(* The display specification: as the sessions specification, and each      *)
(* response reaches the page of its session.                               *)
(***************************************************************************)
NextDisplay ==
    \/ AnnotateStep
    \/ AnnotateDone
    \/ \E s \in Sessions : OpenPage(s)
    \/ \E s \in Sessions, ctl \in {"cf", "rf", "pf"} :
          \E v \in control_values(ctl) : ControlChange(s, ctl, v)
    \/ \E req \in pending : ServeUpd(req)
    \/ \E req \in pending :
          \E draw \in update_all_charts_draws(req.cf, req.rf, req.pf, 0) :
             ServeUpdateAllCharts(req, draw)
    \/ \E req \in pending : ServeUpdatePieChart(req)
    \/ Deliver

SpecDisplay == InitSessions /\ [][NextDisplay]_vars

(***************************************************************************)
(* The charts specification: the update callbacks, none of whose builders  *)
(* raises, on one table per multiset of rows.                              *)
(***************************************************************************)
InitCharts ==
    \E k \in 1..MaxRows :
        \E t \in [1..k -> 0..(NumDashRows - 1)] :
            /\ non_decreasing(t)
            /\ InitWith([i \in 1..k |-> DashRow(t[i])])

NextCharts ==
    \/ AnnotateStep
    \/ AnnotateDone
    \/ /\ Idle /\ variant = "A"
       /\ \E sc \in SegmentValues, rr \in RangeValues, sp \in PriorityValues :
             Upd(sc, rr, sp, 0)
    \/ /\ Idle /\ variant = "B"
       /\ \E segment \in SegmentValues, rfm_range \in RangeValues, priority \in PriorityValues :
             \E draw \in update_all_charts_draws(segment, rfm_range, priority, 0) :
                UpdateAllCharts(segment, rfm_range, priority, 0, draw)
    \/ Respond

SpecCharts == InitCharts /\ [][NextCharts]_vars

(***************************************************************************)
(* The load specification: the process starts with the CSV files in any    *)
(* condition, loads the table (or fails to), and annotates it.             *)
(***************************************************************************)
\* What an attempt to read a file meets: a table, FileNotFoundError,
\* PermissionError, a parser error.
FileStates == {"ok", "absent", "unreadable", "corrupt"}

\* The files in the order copy A tries them.
FileSeq == <<"final_customer_segments (1).csv", "final_customer_segments.csv">>

\* Tables a readable file holds.
FileTables == {<<DashRow(0)>>, <<DashRow(0), DashRow(7)>>}

\* Faulty variant of synth_range: the Frequency of cluster 1 is left at the
\* base draw.
synth_range_base_frequency(c, col) ==
    CASE col = "Recency" ->
            IF c = 1 THEN [lo |-> 1, hi |-> 29]
            ELSE IF c = 0 THEN [lo |-> 200, hi |-> 364]
            ELSE [lo |-> 1, hi |-> 364]
      [] col = "Frequency" ->
            IF c = 6 THEN [lo |-> 30, hi |-> 99]
            ELSE IF c = 0 THEN [lo |-> 1, hi |-> 4]
            ELSE [lo |-> 1, hi |-> 49]
      [] col = "Monetary" ->
            IF c = 1 THEN [lo |-> 5000, hi |-> 29999]
            ELSE IF c = 3 THEN [lo |-> 10000, hi |-> 49999]
            ELSE [lo |-> 100, hi |-> 9999]
      [] col = "AvgOrderValue" ->
            IF c = 3 THEN [lo |-> 1000, hi |-> 4999]
            ELSE [lo |-> 50, hi |-> 499]
      [] col = "RFM_Score" -> [lo |-> 1, hi |-> 9]

\* np.random.randint(lo, hi + 1, n) of create_enhanced_data for column col
\* of a row of cluster c, after the np.where overrides of clusters 1, 3, 6
\* and 0.
synth_range(c, col) ==
    CASE col = "Recency" ->
            IF c = 1 THEN [lo |-> 1, hi |-> 29]
            ELSE IF c = 0 THEN [lo |-> 200, hi |-> 364]
            ELSE [lo |-> 1, hi |-> 364]
      [] col = "Frequency" ->
            IF c = 1 THEN [lo |-> 15, hi |-> 49]
            ELSE IF c = 6 THEN [lo |-> 30, hi |-> 99]
            ELSE IF c = 0 THEN [lo |-> 1, hi |-> 4]
            ELSE [lo |-> 1, hi |-> 49]
      [] col = "Monetary" ->
            IF c = 1 THEN [lo |-> 5000, hi |-> 29999]
            ELSE IF c = 3 THEN [lo |-> 10000, hi |-> 49999]
            ELSE [lo |-> 100, hi |-> 9999]
      [] col = "AvgOrderValue" ->
            IF c = 3 THEN [lo |-> 1000, hi |-> 4999]
            ELSE [lo |-> 50, hi |-> 499]
      [] col = "RFM_Score" -> [lo |-> 1, hi |-> 9]

\* The cluster ids create_enhanced_data draws from.
SynthClusters == {0, 1, 2, 3, 4, 5, 6}

\* The rows of the synthesized table taken by the model: for each cluster,
\* the rows whose Recency, Frequency, Monetary and RFM_Score are all at the
\* low or all at the high end of their ranges, with AvgOrderValue, which
\* is drawn on its own, at either end of its range.
NumSynthRows == Cardinality(SynthClusters) * 4

SynthRow(i) ==
    LET c   == i \div 4
        hi  == ((i \div 2) % 2) = 1
        ahi == (i % 2) = 1
        pick(col, h) == IF h THEN synth_range(c, col).hi ELSE synth_range(c, col).lo
    IN  [Recency        |-> pick("Recency", hi),
         Frequency      |-> pick("Frequency", hi),
         Monetary       |-> pick("Monetary", hi),
         AvgOrderValue  |-> pick("AvgOrderValue", ahi),
         RFM_Score      |-> pick("RFM_Score", hi),
         Cluster_KMeans |-> c,
         Cluster_Label  |-> NaN,
         Priority       |-> NaN]

\* The rows of one cluster with Recency, Frequency and Monetary each at
\* either end of its range, on its own.
NumSynthCorners == 8

SynthCornerRow(c, j) ==
    LET pick(col, h) == IF h THEN synth_range(c, col).hi ELSE synth_range(c, col).lo
    IN  [Recency        |-> pick("Recency", (j % 2) = 1),
         Frequency      |-> pick("Frequency", ((j \div 2) % 2) = 1),
         Monetary       |-> pick("Monetary", ((j \div 4) % 2) = 1),
         AvgOrderValue  |-> pick("AvgOrderValue", FALSE),
         RFM_Score      |-> pick("RFM_Score", FALSE),
         Cluster_KMeans |-> c,
         Cluster_Label  |-> NaN,
         Priority       |-> NaN]

\* The tables create_enhanced_data can return, cut down to MaxRows rows of
\* the 3680: rows of any clusters from SynthRow, or rows of one cluster
\* from SynthCornerRow.
create_enhanced_data ==
    UNION {{[i \in 1..k |-> SynthRow(t[i])] :
               t \in {u \in [1..k -> 0..(NumSynthRows - 1)] : non_decreasing(u)}}
           \cup UNION {{[i \in 1..k |-> SynthCornerRow(c, t[i])] :
                           t \in {u \in [1..k -> 0..(NumSynthCorners - 1)] :
                                     non_decreasing(u)}} :
                       c \in SynthClusters} :
           k \in 1..MaxRows}

\* The table is in memory: the annotation loop is next.
Loaded(table, from) ==
    /\ rfm' = table
    /\ origin' = from
    /\ pc' = "annotate"
    /\ todo' = unique(column(table, "Cluster_KMeans"))
    /\ calls' = [c \in {table[i].Cluster_KMeans : i \in 1..Len(table)} |-> 0]
    /\ UNCHANGED <<variant, profs, initial_figures, out, last, files, score_den, browser>>

\* Copy A (src/app.py:20-23): read the first file; on any exception read
\* the second one, outside any try.
LoadModule ==
    /\ pc = "load" /\ variant = "A"
    /\ IF \E k \in 1..Len(FileSeq) : files[FileSeq[k]] = "ok"
       THEN \E table \in FileTables : Loaded(table, "file")
       ELSE /\ pc' = "aborted"
            /\ UNCHANGED <<variant, rfm, todo, profs, calls, initial_figures, out, last,
                           loader, browser>>

\* The file load_data reads: the first one that exists.
csv_found == {k \in 1..Len(FileSeq) : files[FileSeq[k]] # "absent"}
csv_path ==
    FileSeq[CHOOSE k \in csv_found : \A j \in csv_found : k <= j]

\* Copy B (load_data): a file that exists and reads gives the table; a
\* read that raises, a file that is not there and any other exception all
\* come to `return create_enhanced_data()`.
load_data ==
    /\ pc = "load" /\ variant = "B"
    /\ IF csv_found # {} /\ files[csv_path] = "ok"
       THEN \E table \in FileTables : Loaded(table, "file")
       ELSE \E table \in create_enhanced_data : Loaded(table, "synthetic")

InitLoad ==
    /\ variant \in {"A", "B"}
    /\ rfm = << >>
    /\ pc = "load"
    /\ todo = << >>
    /\ profs = << >>
    /\ calls = << >>
    /\ initial_figures = << >>
    /\ out = NoOut
    /\ last = NoClassification
    /\ files \in [FileNames -> FileStates]
    /\ origin = "none"
    /\ score_den = 1
    /\ controls = [s \in Sessions |-> ClosedPage]
    /\ pending = {}
    /\ shown = [s \in Sessions |-> NothingShown]

NextLoad ==
    \/ LoadModule
    \/ load_data
    \/ AnnotateStep
    \/ AnnotateDone

SpecLoad == InitLoad /\ [][NextLoad]_vars

(***************************************************************************)
(* The scatter specification: tables of one row fewer than, as many rows   *)
(* as and one row more than the cap of the scatter sample, all rows of a   *)
(* table alike, and the update callbacks on them.                          *)
(***************************************************************************)
ScatterSizes == {SCATTER_SAMPLE - 1, SCATTER_SAMPLE, SCATTER_SAMPLE + 1}

InitScatter ==
    \E n \in ScatterSizes, r \in SessionRowKinds :
        InitWith([i \in 1..n |-> DashRow(r)])

NextScatter ==
    \/ AnnotateStep
    \/ AnnotateDone
    \/ /\ Idle /\ variant = "A"
       /\ \E sc \in SegmentValues, rr \in RangeValues, sp \in PriorityValues :
             Upd(sc, rr, sp, 0)
    \/ /\ Idle /\ variant = "B"
       /\ \E segment \in SegmentValues, rfm_range \in RangeValues, priority \in PriorityValues :
             \E draw \in update_all_charts_draws(segment, rfm_range, priority, 0) :
                UpdateAllCharts(segment, rfm_range, priority, 0, draw)
    \/ Respond

SpecScatter == InitScatter /\ [][NextScatter]_vars

(***************************************************************************)
(* Claims about the classifier (checked under SpecClassify).               *)
(***************************************************************************)
AllCids == ClusterIds \cup {AbsentCluster}

\* The aggregate of a cluster of the current table.
agg_r(cid) == mean(cluster_rows(cid, rfm), "Recency")
agg_f(cid) == mean(cluster_rows(cid, rfm), "Frequency")
agg_m(cid) == mean(cluster_rows(cid, rfm), "Monetary")

\* The six rules of the specification, in its order, on a cluster's aggregate.
spec_rules(cid) ==
    <<lt(agg_r(cid), 50) /\ gt(agg_f(cid), 10) /\ gt(agg_m(cid), 1000),
      lt(agg_r(cid), 50) /\ gt(agg_f(cid), 5),
      gt(agg_m(cid), 1500),
      gt(agg_r(cid), 100),
      lt(agg_r(cid), 50) /\ lt(agg_f(cid), 5),
      TRUE>>

spec_rule_strategy == <<"champions", "loyal", "big", "dormant", "potential", "standard">>

\* The number of the first rule that matches.
first_match(cid) ==
    CHOOSE i \in 1..6 : spec_rules(cid)[i] /\ \A j \in 1..(i - 1) : ~spec_rules(cid)[j]

present(cid) == \E i \in 1..Len(rfm) : rfm[i].Cluster_KMeans = cid

\* C1: for every cluster aggregate, get_strat returns the strategy of the
\* first rule of the specification's list that matches (champions, loyal,
\* big spenders, dormant, potential, standard), with the cluster id added,
\* and the two copies of get_strat return the same record.
C1_FirstMatchWins ==
    last.done =>
        /\ last.b = [cluster_id |-> last.cid] @@ strats[spec_rule_strategy[first_match(last.cid)]]
        /\ last.a = last.b

\* C1 witness: a classified aggregate on which rules 3 and 4 both match
\* (monetary > 1500 and recency > 100) and rule 3, the earlier one, won.
C1_Witness ==
    /\ last.done
    /\ spec_rules(last.cid)[3] /\ spec_rules(last.cid)[4]
    /\ last.b.name = "Big Spenders"
    /\ last.a.name = "Big Spenders"

\* C9: an aggregate that satisfies both the champions condition and the
\* big-spenders condition is classified as champions by both copies.
C9_ChampionsBeforeBigSpenders ==
    (/\ last.done
     /\ lt(agg_r(last.cid), 50) /\ gt(agg_f(last.cid), 10) /\ gt(agg_m(last.cid), 1000)
     /\ gt(agg_m(last.cid), 1500))
        => (last.a.name = "Champions" /\ last.b.name = "Champions")

\* C9 witness: such an aggregate has been classified.
C9_Witness ==
    /\ last.done
    /\ lt(agg_r(last.cid), 50) /\ gt(agg_f(last.cid), 10) /\ gt(agg_m(last.cid), 1500)
    /\ last.b.name = "Champions"

\* Two clusters of the current table have equal mean recency, frequency
\* and monetary (compared exactly, by cross-multiplication).
same_mean(x, y) == x.n > 0 /\ y.n > 0 /\ x.sum * y.n = y.sum * x.n
same_aggregate(c1, c2) ==
    /\ same_mean(agg_r(c1), agg_r(c2))
    /\ same_mean(agg_f(c1), agg_f(c2))
    /\ same_mean(agg_m(c1), agg_m(c2))

\* The strategy record without the cluster id get_strat adds to it.
strategy_fields(p) == [k \in DOMAIN p \ {"cluster_id"} |-> p[k]]

\* C10: classification depends only on the aggregate: a classification of
\* any other cluster of the table with the same three means gives the same
\* strategy, whatever the cluster ids and the numbers of rows.
C10_SameAggregateSameStrategy ==
    last.done =>
        \A c \in AllCids :
            same_aggregate(last.cid, c) =>
                /\ strategy_fields(get_strat(c, rfm)) = strategy_fields(last.b)
                /\ strategy_fields(get_strat_a(c, rfm)) = strategy_fields(last.a)

\* C10 witness: a classified cluster, and another cluster with the same
\* means and a different number of rows.
C10_Witness ==
    /\ last.done
    /\ \E c \in AllCids :
          /\ c # last.cid
          /\ same_aggregate(last.cid, c)
          /\ agg_r(c).n # agg_r(last.cid).n

(***************************************************************************)
(* Claims about the annotation loop (checked under SpecClassify).          *)
(***************************************************************************)
\* C7: after the loop every row carries the label and the priority of the
\* strategy get_strat returns for the row's cluster, rows of one cluster
\* agree on both, and the loop called get_strat once per cluster id
\* present in the table (and never for an absent one).
C7_RowsCarryClusterStrategy ==
    pc = "serve" =>
        /\ \A i \in 1..Len(rfm) :
              LET c == rfm[i].Cluster_KMeans
                  p == get_strat_of(variant, c, rfm)
              IN  /\ rfm[i].Cluster_Label = cluster_label(p, c)
                  /\ rfm[i].Priority = p.priority
        /\ \A i, j \in 1..Len(rfm) :
              rfm[i].Cluster_KMeans = rfm[j].Cluster_KMeans =>
                  /\ rfm[i].Cluster_Label = rfm[j].Cluster_Label
                  /\ rfm[i].Priority = rfm[j].Priority
        /\ \A c \in AllCids : calls[c] = IF present(c) THEN 1 ELSE 0

\* C7 witness: an annotated table with two clusters of different
\* priorities, one of them with several rows.
C7_Witness ==
    /\ pc = "serve"
    /\ \E i, j, k \in 1..Len(rfm) :
          /\ i # j
          /\ rfm[i].Cluster_KMeans = rfm[j].Cluster_KMeans
          /\ rfm[k].Cluster_KMeans # rfm[i].Cluster_KMeans
          /\ rfm[k].Priority # rfm[i].Priority
          /\ rfm[i].Priority # NaN /\ rfm[k].Priority # NaN

\* C8: after the loop profs has exactly the cluster ids present in the
\* table as keys, each mapped to one record that is one of the six entries
\* of strats (plus the cluster id); and a classified aggregate that matches
\* none of rules 1-5 gets 'standard', so every aggregate gets a strategy.
C8_EveryClusterHasOneStrategy ==
    /\ pc = "serve" =>
          /\ DOMAIN profs = {rfm[i].Cluster_KMeans : i \in 1..Len(rfm)}
          /\ \A c \in DOMAIN profs :
                Cardinality({s \in DOMAIN strats :
                                profs[c] = [cluster_id |-> c] @@ strats[s]}) = 1
    /\ last.done =>
          /\ \E s \in DOMAIN strats : strategy_fields(last.b) = strats[s]
          /\ \E s \in DOMAIN strats : strategy_fields(last.a) = strats[s]
          /\ (\A i \in 1..5 : ~spec_rules(last.cid)[i]) =>
                (last.a.name = "Standard" /\ last.b.name = "Standard")

\* C8 witness: two clusters in profs, one of them 'standard' by default,
\* and the classification of a present cluster that matched no rule.
C8_Witness ==
    /\ pc = "serve"
    /\ Cardinality(DOMAIN profs) = 2
    /\ last.done /\ present(last.cid)
    /\ \A i \in 1..5 : ~spec_rules(last.cid)[i]
    /\ profs[last.cid].name = "Standard"

(***************************************************************************)
(* Claims about the filter and the update callback (checked under Spec).   *)
(***************************************************************************)
\* The invocation in progress is one of the update callback (upd in copy
\* A, update_all_charts in copy B).
update_invoked == out.cb \in {"upd", "update_all_charts"}

\* Row i of the table passes the three predicates of the invocation's inputs.
passes(i) ==
    /\ out.range[1] <= rfm[i].RFM_Score /\ rfm[i].RFM_Score <= out.range[2]
    /\ out.segment # all_segments => rfm[i].Cluster_KMeans = out.segment
    /\ out.priority # "all" => rfm[i].Priority = out.priority

\* C2: the subset the update callback computes is a subset of the table
\* (labels of table rows, none twice) and each of its rows satisfies the
\* score range, the segment selector and the priority selector.
C2_SubsetSatisfiesPredicates ==
    update_invoked =>
        /\ range_of(out.df) \subseteq 1..Len(rfm)
        /\ Cardinality(range_of(out.df)) = Len(out.df)
        /\ \A i \in range_of(out.df) : passes(i)

\* C2 witness: an invocation with a specific segment and a specific
\* priority whose subset is neither empty nor the whole table.
C2_Witness ==
    /\ update_invoked
    /\ out.segment # all_segments /\ out.priority # "all"
    /\ 0 < Len(out.df) /\ Len(out.df) < Len(rfm)

\* C3: the subset is exactly the rows that pass the inclusive range, the
\* optional cluster equality and the optional priority equality, in table
\* order: no qualifying row is dropped.
C3_SubsetIsExact ==
    update_invoked =>
        /\ range_of(out.df) = {i \in 1..Len(rfm) : passes(i)}
        /\ \A j, k \in 1..Len(out.df) : j < k => out.df[j] < out.df[k]

\* C3 witness: both selectors 'all', a row whose score is the lower bound
\* and a row whose score is the upper bound, both in the subset.
C3_Witness ==
    /\ update_invoked
    /\ out.segment = all_segments /\ out.priority = "all"
    /\ out.range[1] < out.range[2]
    /\ \E i, j \in range_of(out.df) :
          rfm[i].RFM_Score = out.range[1] /\ rfm[j].RFM_Score = out.range[2]
    /\ Len(out.df) = Len(rfm)

\* C4 (the claim as stated; violated by upd): whenever the filter result
\* is empty the update callback raises nothing and returns the 'no data'
\* placeholder for each of the seven chart slots.
C4_EmptySubsetGivesPlaceholders ==
    (update_invoked /\ Len(out.df) = 0) =>
        /\ out.raised = "none"
        /\ Len(out.value) = 10
        /\ \A k \in 1..NumCharts : out.value[k] = empty_fig

\* The chart of slot k as the invoked callback builds it from its subset.
current_chart(k) ==
    IF out.cb = "upd" THEN upd_chart(k, rfm, out.df)
    ELSE update_all_charts_chart(k, rfm, out.df, out.draw)

\* Slot k receives the figure computed from the current subset.
slot_is_current(k) ==
    out.raised = "none" /\ Len(out.value) = 10 /\ out.value[k] = current_chart(k)

C6_NoInvocationIsFatal ==
    update_invoked => (out.raised = "none" /\ Len(out.value) = 10)

(***************************************************************************)
(* Claims about the shared table (checked under Spec).                     *)
(***************************************************************************)
\* The columns a row has when it is loaded.
BaseColumns ==
    {"Recency", "Frequency", "Monetary", "AvgOrderValue", "RFM_Score", "Cluster_KMeans"}

base_columns(row) == [c \in BaseColumns |-> row[c]]

\* C11: the customer table is read-only after load: every step keeps the
\* number of rows, the columns of every row and the value of every loaded
\* column; only the annotation loop, before the server starts, writes the
\* columns Cluster_Label and Priority; and once the server is up no step
\* (update of charts, pie update, health check, after any number of
\* earlier invocations) changes the table at all.
C11_TableReadOnlyAfterLoad ==
    [][/\ Len(rfm') = Len(rfm)
       /\ \A i \in 1..Len(rfm) :
             /\ DOMAIN rfm'[i] = DOMAIN rfm[i]
             /\ base_columns(rfm'[i]) = base_columns(rfm[i])
       /\ rfm' # rfm => pc = "annotate"
       /\ pc = "serve" => rfm' = rfm]_vars

\* C11 witness: the server is up, the table is annotated and an invocation
\* of a callback or of the health check has just been made.
C11_Witness ==
    /\ pc = "serve"
    /\ out.cb \in {"upd", "update_all_charts", "update_pie_chart", "health_check"}
    /\ Len(rfm) > 1
    /\ \A i \in 1..Len(rfm) : rfm[i].Priority # NaN /\ rfm[i].Cluster_Label # NaN

(***************************************************************************)
(* Claims about priorities and the absent cluster (checked under           *)
(* SpecClassify).                                                          *)
(***************************************************************************)
\* The four priority tiers of the specification.
PriorityTiers == {"CRITICAL", "HIGH", "URGENT", "MEDIUM"}

\* C16: after annotation every row has a Priority and it is one of
\* CRITICAL, HIGH, URGENT, MEDIUM; every strategy record, of strats and of
\* profs, carries one of the four; and the four are exactly the options of
\* the priority selector other than 'all'.
C16_PriorityIsOneOfFour ==
    /\ pc = "serve" =>
          /\ \A i \in 1..Len(rfm) : rfm[i].Priority \in PriorityTiers
          /\ \A c \in DOMAIN profs : profs[c].priority \in PriorityTiers
    /\ {strats[s].priority : s \in DOMAIN strats} = PriorityTiers
    /\ PriorityValues \ {"all"} = PriorityTiers

\* C16 witness: an annotated table in which a cluster has several rows and
\* two rows have different priorities.
C16_Witness ==
    /\ pc = "serve"
    /\ \E i, j, k \in 1..Len(rfm) :
          /\ i # j /\ rfm[i].Cluster_KMeans = rfm[j].Cluster_KMeans
          /\ rfm[i].Priority \in PriorityTiers /\ rfm[j].Priority \in PriorityTiers
          /\ rfm[k].Priority \in PriorityTiers /\ rfm[k].Priority # rfm[i].Priority

\* C17: classifying a cluster id that has no row in the table gives, in
\* both copies, the 'standard' strategy with the cluster id added (and no
\* error: get_strat has no other outcome).
C17_AbsentClusterIsStandard ==
    (last.done /\ ~present(last.cid)) =>
        /\ last.a = [cluster_id |-> last.cid] @@ strats.standard
        /\ last.b = [cluster_id |-> last.cid] @@ strats.standard

\* C17 witness: a cluster id with no row has been classified on a table
\* whose rows belong to other clusters.
C17_Witness ==
    /\ last.done /\ ~present(last.cid)
    /\ Len(rfm) > 0
    /\ last.b.name = "Standard" /\ last.a.name = "Standard"

(***************************************************************************)
(* The two examples of the specification (checked under Spec).             *)
(***************************************************************************)
\* The mean x is exactly the integer k.
mean_is(x, k) == x.n > 0 /\ x.sum = k * x.n

\* C18: a cluster with mean recency 10, mean frequency 20 and mean
\* monetary 5000 is classified as champions: by get_strat of either copy,
\* and so in profs once the loop has visited the cluster.
C18_ExampleChampions ==
    \A c \in ClusterIds :
        (mean_is(agg_r(c), 10) /\ mean_is(agg_f(c), 20) /\ mean_is(agg_m(c), 5000)) =>
            /\ get_strat(c, rfm) = [cluster_id |-> c] @@ strats.champions
            /\ get_strat_a(c, rfm) = [cluster_id |-> c] @@ strats.champions
            /\ c \in DOMAIN profs => profs[c].name = "Champions"

\* C18 witness: copy B has annotated a table with such a cluster.
C18_Witness ==
    /\ pc = "serve" /\ variant = "B"
    /\ \E c \in DOMAIN profs :
          /\ mean_is(agg_r(c), 10) /\ mean_is(agg_f(c), 20) /\ mean_is(agg_m(c), 5000)
          /\ profs[c].name = "Champions"
          /\ \E i \in 1..Len(rfm) : rfm[i].Cluster_Label = cluster_label(strats.champions, c)

\* C19: a cluster with mean recency 150, mean frequency 2 and mean
\* monetary 300 is classified as dormant: rules 1 to 3 do not match it and
\* rule 4 (recency > 100) does.
C19_ExampleDormant ==
    \A c \in ClusterIds :
        (mean_is(agg_r(c), 150) /\ mean_is(agg_f(c), 2) /\ mean_is(agg_m(c), 300)) =>
            /\ \A i \in 1..3 : ~spec_rules(c)[i]
            /\ spec_rules(c)[4]
            /\ get_strat(c, rfm) = [cluster_id |-> c] @@ strats.dormant
            /\ get_strat_a(c, rfm) = [cluster_id |-> c] @@ strats.dormant
            /\ c \in DOMAIN profs => profs[c].name = "Dormant"

\* C19 witness: copy B has annotated a table with such a cluster.
C19_Witness ==
    /\ pc = "serve" /\ variant = "B"
    /\ \E c \in DOMAIN profs :
          /\ mean_is(agg_r(c), 150) /\ mean_is(agg_f(c), 2) /\ mean_is(agg_m(c), 300)
          /\ profs[c].name = "Dormant"
          /\ \E i \in 1..Len(rfm) : rfm[i].Priority = "URGENT"


(***************************************************************************)
(* C13: a change of any one of the three controls of a session triggers    *)
(* the recomputation of all ten outputs: the step that changes the control *)
(* posts, for that session and with the session's new control values, a    *)
(* request for a callback that writes the seven graphs and the three       *)
(* panels, and an update that returns, returns one value for each of them. *)
(***************************************************************************)
AllOutputs ==
    {"g1", "g2", "g3", "g4", "g5", "g6", "g7", "champ-detail", "st", "ins"}

seq_range(q) == {q[k] : k \in DOMAIN q}

C13_ControlChangeTriggersAllOutputs ==
    [][/\ \A s \in Sessions :
            (controls[s].open /\ controls'[s] # controls[s]) =>
                \E req \in pending' :
                    /\ req.session = s
                    /\ req.cf = controls'[s].cf
                    /\ req.rf = controls'[s].rf
                    /\ req.pf = controls'[s].pf
                    /\ seq_range(outputs_of(req.cb)) = AllOutputs
        /\ (out'.cb \in {"upd", "update_all_charts"} /\ out'.raised = "none") =>
                /\ Len(out'.value) = Len(outputs_of(out'.cb))
                /\ Len(out'.value) = Cardinality(AllOutputs)]_vars

\* A session in which only the priority dropdown was changed got the ten
\* outputs computed for its new control values.
C13_Witness ==
    /\ out.cb \in {"upd", "update_all_charts"}
    /\ out.raised = "none"
    /\ Len(out.value) = 10
    /\ \E s \in Sessions :
          /\ out.session = s
          /\ controls[s].changes = 1
          /\ controls[s].cf = all_segments
          /\ controls[s].rf = <<score_min, score_max>>
          /\ controls[s].pf = "URGENT"
          /\ out.priority = "URGENT"
          /\ out.segment = all_segments
          /\ out.range = controls[s].rf


(***************************************************************************)
(* C12: an update cycle is stateless: what an invocation of the update     *)
(* callback returns is fixed by its three control values and the table,    *)
(* whatever was invoked before and by whichever session; every result the  *)
(* callback can give for the control values of the invocation on the table *)
(* is the one it gave.                                                     *)
(***************************************************************************)
C12_OutputsDependOnlyOnInputs ==
    /\ out.cb = "upd" =>
          upd(out.segment, out.range, out.priority, out.fault).value = out.value
    /\ out.cb = "update_all_charts" =>
          \A d \in update_all_charts_draws(out.segment, out.range, out.priority, out.fault) :
              update_all_charts(out.segment, out.range, out.priority, out.fault, d).value
                  = out.value


(***************************************************************************)
(* C14: loading never aborts the process: whether the source file is       *)
(* absent, unreadable or fails to parse, start-up goes on and a customer   *)
(* table is available after it.                                            *)
(***************************************************************************)
C14_LoadNeverAborts ==
    /\ pc # "aborted"
    /\ pc \in {"annotate", "serve"} => Len(rfm) > 0

(***************************************************************************)
(* C15: every row whose average order value does not come from the source  *)
(* data, every row of the synthesized table included, has                  *)
(* AvgOrderValue = Monetary / max(Frequency, 1).                           *)
(***************************************************************************)
max_of(a, b) == IF a >= b THEN a ELSE b

C15_AvgOrderValueDerived ==
    origin = "synthetic" =>
        \A i \in 1..Len(rfm) :
            rfm[i].AvgOrderValue * max_of(rfm[i].Frequency, 1) = rfm[i].Monetary


(***************************************************************************)
(* C20: the 3D scatter is capped: for every non-empty filtered subset the  *)
(* scatter chart the update callback returns has min(500, size of the      *)
(* subset) points, never more than 500.                                    *)
(***************************************************************************)
C20_ScatterCapped ==
    (/\ out.cb \in {"upd", "update_all_charts"}
     /\ out.raised = "none"
     /\ Len(out.df) > 0) =>
        /\ out.value[3].n = (IF Len(out.df) < 500 THEN Len(out.df) ELSE 500)
        /\ out.value[3].n <= 500
        /\ Len(out.value[3].points) = out.value[3].n


(***************************************************************************)
(* Claims about the charts and panels (checked under SpecCharts).          *)
(***************************************************************************)
\* The update callback returned its ten outputs for a subset with rows.
update_returned ==
    update_invoked /\ out.raised = "none" /\ Len(out.df) > 0 /\ Len(out.value) = 10

\* The rows of the subset that carry label l, and the sum of a column over
\* a set of table rows.
subset_rows(l) == {i \in range_of(out.df) : rfm[i].Cluster_Label = l}

RECURSIVE set_sum(_, _)
set_sum(S, col) ==
    IF S = {} THEN 0
    ELSE LET i == CHOOSE x \in S : TRUE
         IN  rfm[i][col] + set_sum(S \ {i}, col)

RECURSIVE count_sum(_, _)
count_sum(S, rows) ==
    IF S = {} THEN 0
    ELSE LET l == CHOOSE x \in S : TRUE
         IN  rows[l].Count + count_sum(S \ {l}, rows)

\* C21: the summary table has one row per segment label present in the
\* subset; the Count of a label's row is the number of subset rows with
\* that label, the counts add up to the size of the subset, and each mean
\* of the row is taken over exactly those rows.
C21_SummaryTablePerLabel ==
    update_returned =>
        LET t == out.value[7]
        IN  /\ t.type = "table"
            /\ DOMAIN t.rows = {rfm[i].Cluster_Label : i \in range_of(out.df)}
            /\ \A l \in DOMAIN t.rows :
                  /\ t.rows[l].Count = Cardinality(subset_rows(l))
                  /\ \A col \in {"Recency", "Frequency", "Monetary", "AvgOrderValue",
                                  "RFM_Score"} :
                        /\ t.rows[l][col].n = Cardinality(subset_rows(l))
                        /\ t.rows[l][col].sum = set_sum(subset_rows(l), col)
            /\ count_sum(DOMAIN t.rows, t.rows) = Len(out.df)

\* C21 witness: the summary table of a subset whose rows carry two labels.
C21_Witness ==
    /\ update_returned
    /\ Len(out.df) >= 2
    /\ Cardinality(DOMAIN out.value[7].rows) = 2


\* C22: the revenue bar chart lists each segment label of the subset once,
\* with the sum of Monetary over the subset rows of that label, in
\* ascending order of that sum.
C22_RevenueBarsAscending ==
    update_returned =>
        LET b == out.value[2]
        IN  /\ b.type = "bar"
            /\ Len(b.x) = Len(b.y)
            /\ seq_range(b.y) = {rfm[i].Cluster_Label : i \in range_of(out.df)}
            /\ \A j, k \in 1..Len(b.y) : j # k => b.y[j] # b.y[k]
            /\ \A k \in 1..Len(b.y) : b.x[k] = set_sum(subset_rows(b.y[k]), "Monetary")
            /\ \A j, k \in 1..Len(b.x) : j < k => b.x[j] <= b.x[k]

\* C22 witness: two bars of different revenue, the label of the smaller
\* one belonging to a later row of the table.
C22_Witness ==
    /\ update_returned
    /\ Len(out.value[2].y) = 2
    /\ out.value[2].x[1] < out.value[2].x[2]
    /\ \E i, j \in range_of(out.df) :
          /\ i < j
          /\ rfm[j].Cluster_Label = out.value[2].y[1]
          /\ rfm[i].Cluster_Label = out.value[2].y[2]


\* C30: the strategy panel shows a card for cluster c exactly when the
\* subset has at least one row of cluster c, and the customer count a
\* card shows is the number of subset rows of its cluster.
C30_CardsMatchSubset ==
    update_returned =>
        LET cards == out.value[9].cards
        IN  /\ {cards[k].cid : k \in 1..Len(cards)}
                  = {rfm[i].Cluster_KMeans : i \in range_of(out.df)}
            /\ \A k \in 1..Len(cards) :
                  "customers" \in DOMAIN cards[k] =>
                      cards[k].customers
                          = Cardinality({i \in range_of(out.df) :
                                            rfm[i].Cluster_KMeans = cards[k].cid})


\* C29: priority is a function of the cluster: an invocation with a
\* specific segment c and a specific priority p computes the empty subset
\* when p is not the priority of c's strategy, and the subset it computes
\* for priority 'all' (the rows of c within the score range) when it is.
C29_PriorityFollowsSegment ==
    (/\ update_invoked
     /\ out.segment # all_segments /\ out.segment \in DOMAIN profs
     /\ out.priority # "all") =>
        IF out.priority # profs[out.segment].priority
        THEN out.df = << >>
        ELSE range_of(out.df)
                = {i \in 1..Len(rfm) :
                      /\ rfm[i].Cluster_KMeans = out.segment
                      /\ out.range[1] <= rfm[i].RFM_Score
                      /\ rfm[i].RFM_Score <= out.range[2]}

\* C29 witness: the segment has two rows within the range, the priority
\* asked for is its strategy's, and the subset is those two rows.
C29_Witness ==
    /\ update_invoked
    /\ out.segment # all_segments /\ out.segment \in DOMAIN profs
    /\ out.priority = profs[out.segment].priority
    /\ Len(out.df) = 2


(***************************************************************************)
(* Claims about the classification of the synthesized table (checked under *)
(* SpecLoad).                                                              *)
(***************************************************************************)
\* C23: in the synthesized table the cluster flagged champions (cluster 1,
\* Recency 1..29, Frequency 15..49, Monetary 5000..29999) is classified as
\* champions, whatever its rows are within those ranges.
C23_SynthChampionsAreChampions ==
    (origin = "synthetic" /\ 1 \in DOMAIN profs) => profs[1].name = "Champions"

\* C23 witness: cluster 1 classified from rows that include the one with
\* the highest Recency and the lowest Frequency and Monetary of its ranges.
C23_Witness ==
    /\ origin = "synthetic" /\ pc = "serve"
    /\ 1 \in DOMAIN profs
    /\ \E i \in 1..Len(rfm) :
          /\ rfm[i].Cluster_KMeans = 1
          /\ rfm[i].Recency = 29 /\ rfm[i].Frequency = 15 /\ rfm[i].Monetary = 5000

\* C24: in the synthesized table the cluster the code marks as Dormant
\* (cluster 0, Recency 200..364, Frequency 1..4, Monetary 100..9999) is
\* classified as dormant, whatever its rows are within those ranges.
C24_SynthDormantIsDormant ==
    (origin = "synthetic" /\ 0 \in DOMAIN profs) => profs[0].name = "Dormant"


(***************************************************************************)
(* C25: chart g1 is written by update_pie_chart and by update_all_charts.  *)
(* Whatever the controls were changed to and in whatever order the         *)
(* callbacks completed, once every triggered callback has completed the    *)
(* pie a session shows in g1 is built from the same subset as its charts   *)
(* g2..g7.                                                                 *)
(***************************************************************************)
C25_PieMatchesOtherCharts ==
    (pending = {} /\ out.cb = "none") =>
        \A s \in Sessions : controls[s].open => shown[s].g1 = shown[s].charts


(***************************************************************************)
(* C27: with the controls at their initial values (segment 'all', priority *)
(* 'all', score range [int(min RFM_Score), int(max RFM_Score)]) the subset *)
(* the update callback computes is the whole table, whatever the scores.   *)
(***************************************************************************)
C27_DefaultControlsShowAll ==
    (/\ update_invoked
     /\ out.segment = all_segments /\ out.priority = "all"
     /\ out.range = <<int_score(score_min), int_score(score_max)>>) =>
        out.df = [i \in 1..Len(rfm) |-> i]


(***************************************************************************)
(* C28: on every path (normal result, empty-subset placeholder, exception  *)
(* fallback) update_all_charts returns ten values in the order of its      *)
(* declared outputs: seven figures for g1..g7, then the contents of the    *)
(* panels champ-detail, st and ins.                                        *)
(***************************************************************************)
FigureTypes == {"pie", "bar", "scatter3d", "histogram", "table", "empty"}
PanelTypes == {"champ-break", "None", "strat-g", "ins", "message"}

C26_ScatterPointsAreRows ==
    update_returned =>
        \A k \in 1..Len(out.value[3].points) :
            \E i \in range_of(out.df) :
                /\ out.value[3].points[k].x = rfm[i].Recency
                /\ out.value[3].points[k].y = rfm[i].Frequency
                /\ out.value[3].points[k].z = rfm[i].Monetary
                /\ out.value[3].points[k].color = rfm[i].Cluster_KMeans

====
